---- MODULE Spec2Model ----
(***************************************************************************)
(* A model of TwinSelf's versioned-memory lifecycle:                        *)
(*   twinself/core/version_manager.py     VersionManager (registry,        *)
(*                                        snapshots, rollback)             *)
(*   twinself/core/incremental_builder.py IncrementalBuilder (change       *)
(*                                        detection, cache)                *)
(*   scripts/smart_rebuild.py             main (the rebuild cycle)         *)
(*                                                                         *)
(* Directories are finite maps from file names to contents.  A file name   *)
(* is a record [stem, ext] so that the code's str.endswith tests are       *)
(* computed, not assumed.  A file content is a small number; sha256 is     *)
(* modelled as an injective tagging of the content.                        *)
(***************************************************************************)
EXTENDS Integers, Sequences, FiniteSets, TLC

(***************************************************************************)
(* Bounds of the model.                                                    *)
(***************************************************************************)
MaxVersions == 2      \* versions created by one VersionManager
MaxMutations == 2     \* changes the environment makes to files and clock
MaxEdits == 1       \* edits of the data between rebuild cycles

MaxFaults == 1        \* I/O operations that fail

VARIABLES
    versions,    \* VersionManager.versions: the in-memory list of MemoryVersion
    peer,        \* self.versions of a second VersionManager on the same file
    registry,    \* the file data/version_registry.json
    snapshots,   \* the directories under data/snapshots, by name
    live,        \* the vector-store directory config.qdrant_local_path
    backups,     \* the directories qdrant_backup_<timestamp>, by timestamp
    fs,          \* the four data directories, by category
    cache,       \* IncrementalBuilder.cache (and data/build_cache.json)
    clock,       \* datetime.now(), in seconds
    cycle,       \* the locals of smart_rebuild.main and its position
    taken,       \* per snapshot, the live files when it was last taken in full
    last,        \* the last call made: its arguments, its result, what it did
    budget,      \* how many changes the environment has still to make
    faults       \* how many I/O operations have failed so far

vars == <<versions, peer, registry, snapshots, live, backups, fs, cache, clock,
          cycle, taken, last, budget, faults>>

(***************************************************************************)
(* Files and directories.                                                  *)
(***************************************************************************)
\* Two contents tell a changed file from an unchanged one; two seconds
\* tell calls within one second from calls in different seconds.
Contents == {1, 2}

Seconds == {0, 1}

File(stem, ext) == [stem |-> stem, ext |-> ext]

\* str.endswith(tuple): true when the name ends with one of the suffixes.
\* Every suffix the code tests is a whole extension.
endswith(f, suffixes) == f.ext \in suffixes

\* What the local vector store keeps in its directory: a collection's
\* storage, and the lock it holds while open.
StoreFiles == {File("storage", ".sqlite"), File("", ".lock")}

Restrict(d, S) == [n \in S |-> d[n]]

EmptyDir == [n \in {} |-> 0]

Put(d, n, c) == [m \in DOMAIN d \cup {n} |-> IF m = n THEN c ELSE d[m]]

Remove(d, n) == Restrict(d, DOMAIN d \ {n})

\* A directory that may not exist.
Absent == [exists |-> FALSE, files |-> EmptyDir]

Present(d) == [exists |-> TRUE, files |-> d]

PartialCopies(d) == {Restrict(d, S) : S \in SUBSET DOMAIN d} \ {d}

(***************************************************************************)
(* The data directories and what the vector store reports.                 *)
(***************************************************************************)
Categories == {"semantic", "episodic", "procedural", "system_prompt"}

\* config.semantic_data_dir, episodic_data_dir, procedural_data_dir and
\* system_prompts_dir: the directory of each category.
system_prompts_dir == "system_prompts"

procedural_data_dir == "procedural_data"

DirOf(category) ==
    CASE category = "semantic" -> "semantic_data"
      [] category = "episodic" -> "episodic_data"
      [] category = "procedural" -> procedural_data_dir
      [] OTHER -> system_prompts_dir

DataDirs == {DirOf(c) : c \in Categories}

\* The files a data directory may hold: three the builder tracks, one it
\* does not.
DataFiles == {File("a", ".md"), File("b", ".json"), File("c", ".txt"), File("n", ".bak")}

\* generate_rules_from_episodic_data.save_generated_rules: the file the
\* rule generation writes into the procedural directory.
generated_rules == File("b", ".json")

NoFile == File("", "")

default_prompt == File("a", ".md")

\* get_collection_stats: the point count of each collection.
Collections == {"semantic_memory_hg", "episodic_memory_hg", "procedural_memory_hg"}

StatsInputs == {[c \in Collections |-> 0]}

(***************************************************************************)
(* VersionManager: the registry.                                           *)
(***************************************************************************)
NoId == <<0, 0>>

TimestampId(vs, now) == <<1, now>>

\* f"v{len(self.versions) + 1}_{datetime.now().strftime('%Y%m%d_%H%M%S')}":
\* the sequence number and the clock's second.
NewVersionId(vs, now) == <<Len(vs) + 1, now>>

MemoryVersion(version_id, timestamp, collections, data_hash, metadata) ==
    [version_id |-> version_id, timestamp |-> timestamp,
     collections |-> collections, data_hash |-> data_hash,
     metadata |-> metadata, is_active |-> TRUE, system_prompt_file |-> NoFile]

IOOutcomes == {"ok", "open_failed", "write_failed"}

CorruptRegistry == [valid |-> FALSE, versions |-> <<>>]

NotSaved(vs, io) == registry

\* open(path, 'w') truncates the file and json.dump writes the whole list;
\* a failed open leaves the file, a failed write leaves it cut short.
_save_registry(vs, io) ==
    CASE io = "ok" -> [valid |-> TRUE, versions |-> vs]
      [] io = "open_failed" -> registry
      [] OTHER -> CorruptRegistry

BrokenDeactivate(vs) == vs

\* for v in self.versions: v.is_active = False
Deactivate(vs) == [i \in DOMAIN vs |-> [vs[i] EXCEPT !.is_active = FALSE]]

\* The outcomes of create_version: the id returned (or the exception of
\* _save_registry), the list in memory and the file.
create_version(collections, data_hash, metadata) ==
    LET version_id == NewVersionId(versions, clock)
        version == MemoryVersion(version_id, clock, collections, data_hash, metadata)
        vs == Append(Deactivate(versions), version)
    IN  {[ret |-> IF io = "ok" THEN "id" ELSE "raised",
          version_id |-> version_id,
          versions |-> vs,
          registry |-> _save_registry(vs, io),
          saved |-> io # "open_failed",
          faults |-> IF io = "ok" THEN 0 ELSE 1] : io \in IOOutcomes}

\* get_active_version: scanning from the end, the id of the first version
\* with is_active; NoId for None.
ActiveOf(vs) ==
    LET act == {i \in DOMAIN vs : vs[i].is_active}
    IN  IF act = {} THEN NoId
        ELSE vs[CHOOSE i \in act : \A j \in act : j <= i].version_id

get_active_version == ActiveOf(versions)

FirstVersionIfAny(version_id) ==
    LET hit == {i \in DOMAIN versions : versions[i].version_id = version_id}
    IN  IF hit = {} THEN (IF versions = <<>> THEN 0 ELSE 1)
        ELSE CHOOSE i \in hit : \A j \in hit : i <= j

\* The index of the first version with this id, 0 when there is none.
FindVersion(version_id) ==
    LET hit == {i \in DOMAIN versions : versions[i].version_id = version_id}
    IN  IF hit = {} THEN 0 ELSE CHOOSE i \in hit : \A j \in hit : i <= j

(***************************************************************************)
(* VersionManager: the snapshots.                                          *)
(***************************************************************************)
\* A snapshot directory: the copied store files, and system_prompt.md
\* (its content, NoPrompt when the file is not there).
NoPrompt == 0

Snapshot(files, prompt) == [files |-> files, prompt |-> prompt]

WithSnapshot(version_id, snap) ==
    [v \in DOMAIN snapshots \cup {version_id} |->
        IF v = version_id THEN snap ELSE snapshots[v]]

WithoutSnapshot(version_id) ==
    [v \in DOMAIN snapshots \ {version_id} |-> snapshots[v]]

\* ignore_lock_files: the names copytree leaves out.
ignore_lock_files(files) == {f \in files : endswith(f, {".lock", ".tmp", ".temp"})}

\* shutil.copytree(src, dst, ignore=...) when every file is copied.
copytree(src, ignored) == Restrict(src, DOMAIN src \ ignored)

PromptExists(system_prompt_file) ==
    /\ system_prompt_file # NoFile
    /\ fs[system_prompts_dir].exists
    /\ system_prompt_file \in DOMAIN fs[system_prompts_dir].files

\* The outcomes of create_snapshot: what it returns and the snapshots it
\* leaves.  Each step that touches the disk either completes or raises
\* having done part of its work; the except clause returns False and
\* removes nothing.
create_snapshot(version_id, system_prompt_file) ==
    IF ~live.exists
    THEN {[ret |-> FALSE, snapshots |-> snapshots, step |-> "exists", faults |-> 0]}
    ELSE
    LET copied == copytree(live.files, ignore_lock_files(DOMAIN live.files))
        prompt == IF PromptExists(system_prompt_file)
                  THEN fs[system_prompts_dir].files[system_prompt_file] ELSE NoPrompt
        \* shutil.rmtree(snapshot_path) raising: some of the old snapshot stays
        rmtree_failed ==
            IF version_id \notin DOMAIN snapshots THEN {}
            ELSE {[ret |-> FALSE, step |-> "rmtree", faults |-> 1,
                   snapshots |-> WithSnapshot(version_id,
                        Snapshot(Restrict(snapshots[version_id].files, S), p))] :
                   S \in SUBSET DOMAIN snapshots[version_id].files,
                   p \in {NoPrompt, snapshots[version_id].prompt}}
        \* shutil.copytree raising: the directory was not made, or misses files
        copytree_failed ==
            {[ret |-> FALSE, step |-> "copytree", faults |-> 1, snapshots |-> WithoutSnapshot(version_id)]}
            \cup {[ret |-> FALSE, step |-> "copytree", faults |-> 1,
                   snapshots |-> WithSnapshot(version_id, Snapshot(part, NoPrompt))] :
                   part \in PartialCopies(copied)}
        \* shutil.copy2 of the prompt raising
        copy2_failed ==
            IF prompt = NoPrompt THEN {}
            ELSE {[ret |-> FALSE, step |-> "copy2", faults |-> 1,
                   snapshots |-> WithSnapshot(version_id, Snapshot(copied, NoPrompt))]}
        done == {[ret |-> TRUE, step |-> "done", faults |-> 0,
                  snapshots |-> WithSnapshot(version_id, Snapshot(copied, prompt))]}
    IN  rmtree_failed \cup copytree_failed \cup copy2_failed \cup done

\* list_snapshots: the names of the directories under snapshots_dir.
list_snapshots == DOMAIN snapshots

\* The outcomes of delete_snapshot.
delete_snapshot(version_id) ==
    IF version_id \in DOMAIN snapshots
    THEN {[ret |-> TRUE, faults |-> 0, snapshots |-> WithoutSnapshot(version_id)]}
         \cup {[ret |-> FALSE, faults |-> 1,
                snapshots |-> WithSnapshot(version_id,
                     Snapshot(Restrict(snapshots[version_id].files, S), p))] :
                S \in SUBSET DOMAIN snapshots[version_id].files,
                p \in {NoPrompt, snapshots[version_id].prompt}}
    ELSE {[ret |-> FALSE, faults |-> 0, snapshots |-> snapshots]}

NoBackup(t, d) == backups

\* shutil.copytree(qdrant_path, backup_path): the backups with the copy
\* named after the second it was made in.
WithBackup(t, d) == [b \in DOMAIN backups \cup {t} |-> IF b = t THEN d ELSE backups[b]]

WithPrompt(system_prompt_file, c) ==
    [fs EXCEPT ![system_prompts_dir] = Present(Put(@.files, system_prompt_file, c))]

CopiedOverLive(snap) ==
    [n \in DOMAIN snap.files \cup DOMAIN live.files |->
        IF n \in DOMAIN snap.files THEN snap.files[n] ELSE live.files[n]]

\* shutil.copytree(snapshot_path, qdrant_path,
\*                 ignore=shutil.ignore_patterns('system_prompt.md'))
\* into the place the live directory was removed from.
RestoredFiles(snap) == snap.files

\* The outcomes of restore_snapshot: what it returns and the live
\* directory, the backups and the prompt file it leaves.
restore_snapshot(version_id, restore_system_prompt) ==
    IF version_id \notin DOMAIN snapshots
    THEN {[ret |-> FALSE, step |-> "exists", faults |-> 0, live |-> live,
           backups |-> backups, fs |-> fs]}
    ELSE
    LET snap == snapshots[version_id]
        \* qdrant_backup_<now>: copytree refuses a target that exists
        backup_exists == live.exists /\ clock \in DOMAIN backups
        backed_up == IF live.exists THEN WithBackup(clock, live.files) ELSE backups
        backup_failed ==
            IF ~live.exists THEN {}
            ELSE IF backup_exists
            THEN {[ret |-> FALSE, step |-> "backup_exists", faults |-> 0, live |-> live,
                   backups |-> backups, fs |-> fs]}
            ELSE {[ret |-> FALSE, step |-> "backup", faults |-> 1, live |-> live,
                   backups |-> backups, fs |-> fs]}
                 \cup {[ret |-> FALSE, step |-> "backup", faults |-> 1, live |-> live,
                        backups |-> WithBackup(clock, part), fs |-> fs] :
                        part \in PartialCopies(live.files)}
        \* shutil.rmtree(qdrant_path) raising: some of the live files stay
        rmtree_failed ==
            IF ~live.exists THEN {}
            ELSE {[ret |-> FALSE, step |-> "rmtree", faults |-> 1,
                   live |-> Present(Restrict(live.files, S)),
                   backups |-> backed_up, fs |-> fs] : S \in SUBSET DOMAIN live.files}
        \* shutil.copytree(snapshot_path, qdrant_path) raising
        copytree_failed ==
            {[ret |-> FALSE, step |-> "copytree", faults |-> 1, live |-> Absent,
              backups |-> backed_up, fs |-> fs]}
            \cup {[ret |-> FALSE, step |-> "copytree", faults |-> 1, live |-> Present(part),
                   backups |-> backed_up, fs |-> fs] :
                   part \in PartialCopies(RestoredFiles(snap))}
        i == FindVersion(version_id)
        prompt_dest == IF i = 0 THEN NoFile ELSE versions[i].system_prompt_file
        copies_prompt == restore_system_prompt /\ snap.prompt # NoPrompt
                         /\ prompt_dest # NoFile
        copy2_failed ==
            IF ~copies_prompt THEN {}
            ELSE {[ret |-> FALSE, step |-> "copy2", faults |-> 1, live |-> Present(RestoredFiles(snap)),
                   backups |-> backed_up, fs |-> fs]}
        done == {[ret |-> TRUE, step |-> "done", faults |-> 0, live |-> Present(RestoredFiles(snap)),
                  backups |-> backed_up,
                  fs |-> IF copies_prompt THEN WithPrompt(prompt_dest, snap.prompt)
                         ELSE fs]}
    IN  IF backup_exists THEN backup_failed
        ELSE backup_failed \cup rmtree_failed \cup copytree_failed
             \cup copy2_failed \cup done

(***************************************************************************)
(* VersionManager: rollback.                                               *)
(***************************************************************************)
OnlyTarget(vs, i) == <<[vs[i] EXCEPT !.is_active = TRUE]>>

\* target_version.is_active = True, after every flag was cleared.
Activate(vs, i) == [vs EXCEPT ![i].is_active = TRUE]

RollbackReturn(restored) == "True"

\* The outcomes of rollback_to_version (the later definition of the class,
\* which is the one Python keeps).
rollback_to_version(version_id, restore_data) ==
    LET i == FindVersion(version_id)
        untouched == [ret |-> FALSE, step |-> "skipped", faults |-> 0, live |-> live,
                      backups |-> backups, fs |-> fs]
    IN  IF i = 0
        THEN {[ret |-> "False", restored |-> "no", step |-> "not_found",
               saved |-> FALSE, faults |-> 0,
               versions |-> versions, registry |-> registry,
               live |-> live, backups |-> backups, fs |-> fs]}
        ELSE {[ret |-> IF io = "ok" THEN RollbackReturn(r.ret) ELSE "raised",
               restored |-> IF ~restore_data THEN "no"
                            ELSE IF r.ret THEN "done" ELSE "failed",
               step |-> r.step,
               saved |-> io # "open_failed",
               faults |-> r.faults + (IF io = "ok" THEN 0 ELSE 1),
               versions |-> Activate(Deactivate(versions), i),
               registry |-> _save_registry(Activate(Deactivate(versions), i), io),
               live |-> r.live, backups |-> r.backups, fs |-> r.fs] :
               r \in (IF restore_data THEN restore_snapshot(version_id, TRUE)
                      ELSE {untouched}),
               io \in IOOutcomes}

(***************************************************************************)
(* IncrementalBuilder: the change tracker.                                 *)
(***************************************************************************)
\* os.path.join(root, file): the cache's key.
Path(directory, file) == [dir |-> directory, file |-> file]

\* hashlib.sha256 of the file's bytes: different contents, different digests.
_compute_file_hash(content) == <<"sha256", content>>

\* file.endswith(('.txt', '.md', '.json'))
Tracked(file) == endswith(file, {".txt", ".md", ".json"})

\* The loop over os.walk(directory): the hash of every tracked file, by
\* path.  os.walk of a directory that does not exist yields nothing.
current_files(directory) ==
    LET files == IF fs[directory].exists THEN fs[directory].files ELSE EmptyDir
    IN  [p \in {Path(directory, f) : f \in {g \in DOMAIN files : Tracked(g)}} |->
            _compute_file_hash(files[p.file])]

\* self.cache.get(data_type, {})
cached_files(data_type) == IF data_type \in DOMAIN cache THEN cache[data_type] ELSE EmptyDir

NoChanges == [added |-> {}, modified |-> {}, deleted |-> {}]

AlwaysModified(current, cached, f) == TRUE

\* current_files[f] != cached_files[f]
HashDiffers(current, cached, f) == current[f] # cached[f]

DiffWithoutCheck(directory, data_type) ==
    [added |-> DOMAIN current_files(directory) \ DOMAIN cached_files(data_type),
     modified |-> {},
     deleted |-> DOMAIN cached_files(data_type) \ DOMAIN current_files(directory)]

detect_changes(directory, data_type) ==
    IF ~fs[directory].exists THEN NoChanges
    ELSE LET current == current_files(directory)
             cached == cached_files(data_type)
         IN  [added |-> DOMAIN current \ DOMAIN cached,
              modified |-> {f \in DOMAIN current \cap DOMAIN cached :
                               HashDiffers(current, cached, f)},
              deleted |-> DOMAIN cached \ DOMAIN current]

MergedCache(directory, data_type) ==
    [c \in DOMAIN cache \cup {data_type} |->
        IF c = data_type
        THEN [p \in DOMAIN cached_files(c) \cup DOMAIN current_files(directory) |->
                 IF p \in DOMAIN current_files(directory)
                 THEN current_files(directory)[p] ELSE cached_files(c)[p]]
        ELSE cache[c]]

\* self.cache[data_type] = current_files; self._save_cache()
update_cache(directory, data_type) ==
    [c \in DOMAIN cache \cup {data_type} |->
        IF c = data_type THEN current_files(directory) ELSE cache[c]]

needs_rebuild(directory, data_type) ==
    LET r == detect_changes(directory, data_type)
    IN  r.added # {} \/ r.modified # {} \/ r.deleted # {}

get_change_summary(directory, data_type) ==
    LET r == detect_changes(directory, data_type)
    IN  [added |-> Cardinality(r.added),
         modified |-> Cardinality(r.modified),
         deleted |-> Cardinality(r.deleted),
         total_changes |-> Cardinality(r.added) + Cardinality(r.modified)
                           + Cardinality(r.deleted)]

(***************************************************************************)
(* The state after construction, and the calls.                            *)
(***************************************************************************)
NoSummary == [added |-> 0, modified |-> 0, deleted |-> 0, total_changes |-> 0]

\* argparse's defaults: every flag is store_true.
NoArgs == [force |-> FALSE, dry_run |-> FALSE, skip_procedural_gen |-> FALSE,
           create_version |-> FALSE]

NoAttempt == [entry |-> EmptyDir, cached |-> FALSE, changes |-> NoChanges]

\* No rebuild process exists: none has run since the data last changed.
Idle == [pc |-> "idle", args |-> NoArgs,
         changes |-> [c \in Categories |-> NoSummary],
         evaluated |-> {}, failed |-> "none", before |-> NoAttempt,
         version_id |-> NoId, system_prompt_file |-> NoFile]

\* The outcomes the fault bound still allows.
Affordable(outcomes) == {o \in outcomes : faults + o.faults <= MaxFaults}

\* The ways a rebuild process ends (or has not begun): main returned early
\* or at its end, or an exception ended it.
Terminal == {"idle", "up_to_date", "dry_run", "done", "crashed"}

Call(op, version_id, flag, ret) ==
    [op |-> op, version_id |-> version_id, flag |-> flag, ret |-> ret,
     restored |-> "no", saved |-> FALSE, step |-> "none",
     category |-> "none", changes |-> NoChanges, prev |-> "none",
     other |-> NoId, result |-> <<>>]

HashInputs == {[c \in Categories |-> 0]}

InitStore == [f \in StoreFiles |-> 1]

InitData == [d \in DataDirs |-> Present([f \in {default_prompt} |-> 1])]

Init ==
    /\ versions = <<>>
    /\ peer = <<>>
    /\ registry = [valid |-> TRUE, versions |-> <<>>]
    /\ snapshots = [v \in {} |-> 0]
    /\ live = Present(InitStore)
    /\ backups = [t \in {} |-> 0]
    /\ fs = InitData
    /\ cache = [c \in {} |-> 0]
    /\ clock = 0
    /\ cycle = Idle
    /\ taken = [v \in {} |-> 0]
    /\ last = Call("init", NoId, FALSE, "None")
    /\ budget = MaxMutations
    /\ faults = 0

\* The ids a caller may name: those of the registry, those of the
\* snapshots, and one that is neither.
UnknownId == <<9, 9>>

KnownIds == {versions[i].version_id : i \in DOMAIN versions}

CallIds == KnownIds \cup DOMAIN snapshots \cup {UnknownId}

\* No caller catches what a VersionManager raises: the exception ends the
\* process, and with it the use of this VersionManager.
Running == last.ret # "raised"

CreateVersion(collections, data_hash) ==
    /\ Running
    /\ Len(versions) < MaxVersions
    /\ \E o \in Affordable(create_version(collections, data_hash, <<>>)) :
          /\ versions' = o.versions
          /\ registry' = o.registry
          /\ faults' = faults + o.faults
          /\ last' = [Call("create_version", o.version_id, FALSE, o.ret)
                        EXCEPT !.saved = o.saved]
    /\ UNCHANGED <<peer, snapshots, live, backups, fs, cache, clock, cycle, taken, budget>>

RollbackToVersion(version_id, restore_data) ==
    /\ Running
    /\ \E o \in Affordable(rollback_to_version(version_id, restore_data)) :
          /\ versions' = o.versions
          /\ registry' = o.registry
          /\ live' = o.live
          /\ backups' = o.backups
          /\ fs' = o.fs
          /\ faults' = faults + o.faults
          /\ last' = [Call("rollback_to_version", version_id, restore_data, o.ret)
                        EXCEPT !.saved = o.saved, !.restored = o.restored,
                               !.step = o.step]
    /\ UNCHANGED <<peer, snapshots, cache, clock, cycle, taken, budget>>

RaisedOnFailure(completed) == IF completed THEN "True" ELSE "raised"

\* What create_snapshot and restore_snapshot hand to their caller: True from
\* the end of the try block, False from a check inside it or from the
\* "except Exception" clause that encloses the whole body.
BoolReturn(completed) == IF completed THEN "True" ELSE "False"

CreateSnapshot(version_id, system_prompt_file) ==
    /\ Running
    /\ \E o \in Affordable(create_snapshot(version_id, system_prompt_file)) :
          /\ snapshots' = o.snapshots
          /\ taken' = IF o.ret
                      THEN [v \in DOMAIN taken \cup {version_id} |->
                               IF v = version_id THEN live.files ELSE taken[v]]
                      ELSE [v \in DOMAIN taken \ {version_id} |-> taken[v]]
          /\ faults' = faults + o.faults
          /\ last' = [Call("create_snapshot", version_id, FALSE,
                           BoolReturn(o.ret))
                        EXCEPT !.step = o.step]
    /\ UNCHANGED <<peer, versions, registry, live, backups, fs, cache, clock, cycle, budget>>

RestoreSnapshot(version_id, restore_system_prompt) ==
    /\ Running
    /\ \E o \in Affordable(restore_snapshot(version_id, restore_system_prompt)) :
          /\ live' = o.live
          /\ backups' = o.backups
          /\ fs' = o.fs
          /\ faults' = faults + o.faults
          /\ last' = [Call("restore_snapshot", version_id, restore_system_prompt,
                           BoolReturn(o.ret))
                        EXCEPT !.step = o.step,
                               !.restored = IF o.ret THEN "done" ELSE "failed"]
    /\ UNCHANGED <<peer, versions, registry, snapshots, cache, clock, cycle, taken, budget>>

DeleteSnapshot(version_id) ==
    /\ Running
    /\ \E o \in Affordable(delete_snapshot(version_id)) :
          /\ snapshots' = o.snapshots
          /\ faults' = faults + o.faults
          /\ last' = Call("delete_snapshot", version_id, FALSE,
                          IF o.ret THEN "True" ELSE "False")
    /\ taken' = [v \in DOMAIN taken \ {version_id} |-> taken[v]]
    /\ UNCHANGED <<peer, versions, registry, live, backups, fs, cache, clock, cycle, budget>>

\* The vector store's engine (or an operator) writes, removes or replaces
\* a file of the live directory.
MutateLive ==
    /\ budget > 0
    /\ budget' = budget - 1
    /\ \/ \E f \in StoreFiles, c \in Contents : live' = Present(Put(live.files, f, c))
       \/ \E f \in DOMAIN live.files : live' = Present(Remove(live.files, f))
       \/ live.exists /\ live' = Absent
    /\ last' = Call("mutate", NoId, FALSE, "None")
    /\ UNCHANGED <<peer, versions, registry, snapshots, backups, fs, cache, clock, cycle, taken, faults>>

\* The clock moves, forwards or (skew) backwards.
Tick ==
    /\ budget > 0
    /\ budget' = budget - 1
    /\ \E t \in Seconds : t # clock /\ clock' = t
    /\ last' = Call("tick", NoId, FALSE, "None")
    /\ UNCHANGED <<peer, versions, registry, snapshots, live, backups, fs, cache, cycle, taken, faults>>

\* smart_rebuild.main, line 210: the version just created is snapshotted.
SnapshotNewVersion ==
    /\ last.op = "create_version" /\ last.ret = "id"
    /\ CreateSnapshot(last.version_id, NoFile)

(***************************************************************************)
(* SpecVM: one VersionManager; versions are created, snapshotted as the    *)
(* rebuild cycle does, and rolled back to, with known and unknown ids.     *)
(***************************************************************************)
NextVM ==
    \/ \E c \in {[x \in Collections |-> 0]}, h \in HashInputs : CreateVersion(c, h)
    \/ \E v \in CallIds, rd \in BOOLEAN : RollbackToVersion(v, rd)
    \/ SnapshotNewVersion

SpecVM == Init /\ [][NextVM]_vars

(***************************************************************************)
(* SpecSnap: the snapshot store of a VersionManager opened on a registry   *)
(* that holds one version, created by a rebuild cycle that tracked the     *)
(* prompt file; the live directory changes between the calls.              *)
(***************************************************************************)
FirstVersion ==
    [MemoryVersion(NewVersionId(<<>>, 0), 0, [c \in Collections |-> 0],
                   [c \in Categories |-> 0], <<>>)
       EXCEPT !.system_prompt_file = default_prompt]

InitSnap ==
    /\ versions = <<FirstVersion>>
    /\ peer = <<>>
    /\ registry = [valid |-> TRUE, versions |-> <<FirstVersion>>]
    /\ snapshots = [v \in {} |-> 0]
    /\ live = Present(InitStore)
    /\ backups = [t \in {} |-> 0]
    /\ fs = InitData
    /\ cache = [c \in {} |-> 0]
    /\ clock = 0
    /\ cycle = Idle
    /\ taken = [v \in {} |-> 0]
    /\ last = Call("init", NoId, FALSE, "None")
    /\ budget = MaxMutations
    /\ faults = 0

NextSnap ==
    \/ \E v \in KnownIds, f \in {NoFile, default_prompt} : CreateSnapshot(v, f)
    \/ \E v \in CallIds, rp \in BOOLEAN : RestoreSnapshot(v, rp)
    \/ \E v \in CallIds : DeleteSnapshot(v)
    \/ MutateLive
    \/ Tick

SpecSnap == InitSnap /\ [][NextSnap]_vars

(***************************************************************************)
(* Claims about the registry and rollback, under SpecVM.                   *)
(***************************************************************************)
ActiveCount(vs) == Cardinality({i \in DOMAIN vs : vs[i].is_active})

\* C1: after any sequence of create_version and rollback_to_version calls
\* (known or unknown ids, with or without restore_data), a registry that
\* holds a version holds exactly one active version, in memory and in the
\* registry file as last written.
C1_SingleActive ==
    /\ versions # <<>> => ActiveCount(versions) = 1
    /\ (registry.valid /\ registry.versions # <<>>) => ActiveCount(registry.versions) = 1

\* C1's case: two versions, and a rollback has made the older one active.
C1_Witness ==
    /\ Len(versions) = 2
    /\ last.op = "rollback_to_version" /\ last.ret = "True"
    /\ versions[1].is_active

\* C2 (as claimed): a rollback with restore_data to a known version whose
\* snapshot directory does not exist makes that version the active one and
\* returns something other than what a rollback with a successful restore
\* returns.
C2_MissingSnapshotSignalled ==
    (/\ last.op = "rollback_to_version" /\ last.flag
     /\ last.version_id \in KnownIds
     /\ last.step = "exists")
    => /\ get_active_version = last.version_id
       /\ last.ret # RollbackReturn(TRUE)

\* C3: a rollback to an id the registry does not hold returns False and
\* changes nothing: no flag, no write of the registry file, no restore and
\* no backup of the live directory, whatever restore_data is.
C3_UnknownIdNoChange ==
    [][(last'.op = "rollback_to_version" /\ last'.version_id \notin KnownIds)
       => /\ last'.ret = "False"
          /\ ~last'.saved
          /\ last'.restored = "no"
          /\ UNCHANGED <<versions, registry, snapshots, live, backups, fs>>]_vars

\* C3's case: versions exist, and a rollback with restore_data named an
\* id that is none of theirs.
C3_Witness ==
    /\ versions # <<>>
    /\ last.op = "rollback_to_version" /\ last.flag
    /\ last.version_id \notin KnownIds

(***************************************************************************)
(* Claims about the snapshot store, under SpecSnap.                        *)
(***************************************************************************)
\* The files of a directory that are not lock or temporary files.
Durable(d) == Restrict(d, {n \in DOMAIN d : n.ext \notin {".lock", ".tmp", ".temp"}})

\* C9: when restore_snapshot(v) succeeds after create_snapshot(v) succeeded
\* (and the snapshot was not deleted or rewritten since), the live directory
\* holds, lock and temporary files apart, exactly the files and contents
\* it held when the snapshot was taken.
C9_RoundTrip ==
    (/\ last.op = "restore_snapshot" /\ last.ret = "True"
     /\ last.version_id \in DOMAIN taken)
    => /\ live.exists
       /\ Durable(live.files) = Durable(taken[last.version_id])

\* C9's case: the restore succeeded on a live directory whose durable files
\* (kept in the backup the restore made) differed from the snapshot's.
C9_Witness ==
    /\ last.op = "restore_snapshot" /\ last.ret = "True"
    /\ last.version_id \in DOMAIN taken
    /\ clock \in DOMAIN backups
    /\ Durable(backups[clock]) # Durable(taken[last.version_id])
    /\ Durable(taken[last.version_id]) # EmptyDir

\* C10 (as claimed): when create_snapshot returns False because the copy
\* of the store or of the prompt file failed, snapshots/<version_id> does
\* not exist, so list_snapshots does not list it.
C10_NoPartialSnapshot ==
    (/\ last.op = "create_snapshot" /\ last.ret = "False"
     /\ last.step \in {"copytree", "copy2"})
    => last.version_id \notin list_snapshots

(***************************************************************************)
(* SpecCT: one IncrementalBuilder over data directories that change.  The  *)
(* semantic directory and its cache entry start in any of their states     *)
(* (the entry is what some earlier update_cache wrote).                     *)
(***************************************************************************)
DirStates ==
    {Absent} \cup {Present(m) : m \in UNION {[S -> Contents] : S \in SUBSET DataFiles}}

CacheEntries(directory) ==
    UNION {[{Path(directory, f) : f \in S} -> {_compute_file_hash(c) : c \in Contents}] :
           S \in SUBSET {g \in DataFiles : Tracked(g)}}

InitCT ==
    /\ versions = <<>>
    /\ peer = <<>>
    /\ registry = [valid |-> TRUE, versions |-> <<>>]
    /\ snapshots = [v \in {} |-> 0]
    /\ live = Present(InitStore)
    /\ backups = [t \in {} |-> 0]
    /\ fs \in {[InitData EXCEPT ![DirOf("semantic")] = d] : d \in DirStates}
    /\ cache \in {[c \in {} |-> 0]}
                 \cup {[c \in {"semantic"} |-> e] : e \in CacheEntries(DirOf("semantic"))}
    /\ clock = 0
    /\ cycle = Idle
    /\ taken = [v \in {} |-> 0]
    /\ last = Call("init", NoId, FALSE, "None")
    /\ budget = MaxMutations
    /\ faults = 0

TrackerCategories == {"semantic", "episodic"}

\* What the call before did, when it was a call for the same category.
SameCategory(category) ==
    IF last.category # category THEN "none"
    ELSE IF last.op = "update_cache" /\ last.prev = "update_cache" THEN "update_cache_twice"
    ELSE last.op

DetectChanges(category) ==
    /\ last' = [Call("detect_changes", NoId, FALSE, "None")
                  EXCEPT !.category = category,
                         !.changes = detect_changes(DirOf(category), category),
                         !.prev = SameCategory(category)]
    /\ UNCHANGED <<peer, versions, registry, snapshots, live, backups, fs, cache, clock,
                   cycle, taken, budget, faults>>

UpdateCache(category) ==
    /\ cache' = update_cache(DirOf(category), category)
    /\ last' = [Call("update_cache", NoId, FALSE, "None")
                  EXCEPT !.category = category, !.prev = SameCategory(category)]
    /\ UNCHANGED <<peer, versions, registry, snapshots, live, backups, fs, clock,
                   cycle, taken, budget, faults>>

\* The owner of the data writes, removes or replaces one of the files
\* named, in a data directory, or removes the directory.
EditData(directory, files) ==
    /\ cycle.pc \in Terminal
    /\ budget > 0
    /\ budget' = budget - 1
    /\ \/ \E f \in files, c \in Contents :
             fs' = [fs EXCEPT ![directory] = Present(Put(@.files, f, c))]
       \/ \E f \in files \cap DOMAIN fs[directory].files :
             fs' = [fs EXCEPT ![directory] = Present(Remove(@.files, f))]
       \/ fs[directory].exists /\ fs' = [fs EXCEPT ![directory] = Absent]
    /\ last' = Call("edit", NoId, FALSE, "None")
    /\ cycle' = Idle
    /\ UNCHANGED <<peer, versions, registry, snapshots, live, backups, cache, clock,
                   taken, faults>>

NextCT ==
    \/ \E c \in TrackerCategories : DetectChanges(c)
    \/ \E c \in TrackerCategories : UpdateCache(c)
    \/ EditData(DirOf("semantic"), DataFiles)

SpecCT == InitCT /\ [][NextCT]_vars

(***************************************************************************)
(* Claims about the change tracker, under SpecCT.                          *)
(***************************************************************************)
\* C6: for a directory that exists, detect_changes returns as added the
\* tracked paths of the directory that the cache entry lacks, as deleted
\* the paths of the entry that the directory lacks, as modified the paths
\* of both whose hashes differ; the three are pairwise disjoint, a path of
\* both with equal hashes is in none, and a file renamed with its content
\* kept is one deleted and one added path.
C6_DetectChanges ==
    (last.op = "detect_changes" /\ fs[DirOf(last.category)].exists) =>
    LET d == DirOf(last.category)
        F == {Path(d, f) : f \in {g \in DOMAIN fs[d].files :
                                     g.ext \in {".txt", ".md", ".json"}}}
        C == IF last.category \in DOMAIN cache THEN cache[last.category] ELSE EmptyDir
        h(p) == _compute_file_hash(fs[d].files[p.file])
        r == last.changes
    IN  /\ r.added = F \ DOMAIN C
        /\ r.deleted = DOMAIN C \ F
        /\ r.modified = {p \in F \cap DOMAIN C : h(p) # C[p]}
        /\ r.added \cap r.modified = {}
        /\ r.added \cap r.deleted = {}
        /\ r.modified \cap r.deleted = {}
        /\ \A p \in F \cap DOMAIN C :
              h(p) = C[p] => p \notin r.added \cup r.modified \cup r.deleted
        /\ \A p \in DOMAIN C \ F, q \in F \ DOMAIN C :
              h(q) = C[p] => /\ p \in r.deleted /\ q \in r.added
                             /\ p \notin r.modified /\ q \notin r.modified

\* C6's case: the spec's example, one file edited, one deleted, one added
\* since the entry was written.
C6_Witness ==
    /\ last.op = "detect_changes"
    /\ Cardinality(last.changes.added) = 1
    /\ Cardinality(last.changes.modified) = 1
    /\ Cardinality(last.changes.deleted) = 1

\* C7: update_cache leaves every other category's entry as it was; called
\* again right away for the same category it leaves the cache as the first
\* call left it; and a detect_changes for that category made right after an
\* update_cache reports no added, modified or deleted path.
C7_UpdateCacheIdempotent ==
    [][/\ last'.op = "update_cache" =>
            \A c \in Categories \ {last'.category} :
                /\ c \in DOMAIN cache' <=> c \in DOMAIN cache
                /\ c \in DOMAIN cache => cache'[c] = cache[c]
       /\ (/\ last.op = "update_cache" /\ last'.op = "update_cache"
           /\ last'.category = last.category) => cache' = cache
       /\ (/\ last.op = "update_cache" /\ last'.op = "detect_changes"
           /\ last'.category = last.category) => last'.changes = NoChanges]_vars

\* C7's case: two update_cache calls in a row, then detect_changes, for a
\* category whose directory holds tracked files and whose entry, before
\* the calls, held a path the directory no longer has.
C7_Witness ==
    /\ last.op = "detect_changes" /\ last.prev = "update_cache_twice"
    /\ cached_files(last.category) # EmptyDir
    /\ "episodic" \in DOMAIN cache /\ "semantic" \in DOMAIN cache

(***************************************************************************)
(* smart_rebuild.main: the rebuild cycle, one process per cycle.           *)
(***************************************************************************)
ArgInputs ==
    {NoArgs,
     [NoArgs EXCEPT !.force = TRUE],
     [NoArgs EXCEPT !.dry_run = TRUE],
     [NoArgs EXCEPT !.skip_procedural_gen = TRUE],
     [NoArgs EXCEPT !.create_version = TRUE]}

\* The data files in the order of sorted(files).
SortedFiles == <<File("a", ".md"), File("b", ".json"), File("c", ".txt"), File("n", ".bak")>>

\* sha256 over the hashes of the tracked files, in the order of their names:
\* the names themselves are not hashed.
_compute_directory_hash(directory) ==
    LET files == IF fs[directory].exists THEN fs[directory].files ELSE EmptyDir
        walked == SelectSeq(SortedFiles, LAMBDA f : f \in DOMAIN files /\ Tracked(f))
    IN  <<"sha256", [i \in DOMAIN walked |-> _compute_file_hash(files[walked[i]])]>>

\* json.load of the registry file, if there is one.
_load_registry == registry.versions

\* What is left of a rebuild process: of one that returned, what it printed
\* of its analysis before any rebuild, or that it completed; of one that an
\* exception ended, all there was.
Returned(c) ==
    IF c.pc \in {"up_to_date", "dry_run"} THEN [Idle EXCEPT !.pc = c.pc, !.changes = c.changes]
    ELSE IF c.pc = "done" THEN [Idle EXCEPT !.pc = "done"]
    ELSE c

\* The constructors, the change analysis and the two early returns.
Analyze(args) ==
    /\ cycle.pc \in Terminal
    /\ args.create_version => Len(registry.versions) < MaxVersions
    /\ IF ~registry.valid
       THEN /\ versions' = <<>>
            /\ cycle' = [Idle EXCEPT !.pc = "crashed"]
            /\ last' = Call("main", NoId, FALSE, "raised")
       ELSE LET changes == [c \in Categories |-> get_change_summary(DirOf(c), c)]
                total_changes == changes["semantic"].total_changes
                                 + changes["episodic"].total_changes
                                 + changes["procedural"].total_changes
                                 + changes["system_prompt"].total_changes
            IN  /\ versions' = _load_registry
                /\ cycle' = Returned([Idle EXCEPT
                               !.pc = IF ~args.force /\ total_changes = 0 THEN "up_to_date"
                                      ELSE IF args.dry_run THEN "dry_run"
                                      ELSE "semantic",
                               !.args = args, !.changes = changes])
                /\ last' = Call("analyze", NoId, args.force, "None")
    /\ UNCHANGED <<peer, registry, snapshots, live, backups, fs, cache, clock, taken,
                   budget, faults>>

\* build_semantic_memory, build_episodic_memory, build_procedural_memory:
\* each returns or raises DataLoadingError or VectorStoreError.
BuildOutcomes == {"ok", "raised"}

CacheUpdatedFirst(directory, data_type, build) == update_cache(directory, data_type)

CacheNotUpdated(directory, data_type, build) == cache

\* build_x_memory(); builder.update_cache(dir, x): the update is not
\* reached when the build raises.
CacheAfterBuild(directory, data_type, build) ==
    IF build = "ok" THEN update_cache(directory, data_type) ELSE cache

GoesOn(build, then) == then

\* No try encloses build_x_memory() in main: what it raises ends the
\* process; when it returns, main goes on to the step named.
AfterBuild(build, then) == IF build = "ok" THEN then ELSE "crashed"

Attempt(category) ==
    [entry |-> cached_files(category), cached |-> category \in DOMAIN cache,
     changes |-> detect_changes(DirOf(category), category)]

AlwaysWanted(category) == TRUE

\* if x_changes['total_changes'] > 0 or args.force
Wanted(category) == cycle.changes[category].total_changes > 0 \/ cycle.args.force

\* One "if changes or force: build, update_cache / else: skip" block of
\* main, for a category, leading to the step named; gen is how the rule
\* generation of the block went ("none": the block has none), and rules
\* that came back add one to procedural_changes['total_changes'].
Rebuild(category, build, then, gen) ==
    /\ cycle.pc = category
    /\ IF Wanted(category)
       THEN /\ build = "raised" => faults < MaxFaults
            /\ faults' = faults + (IF build = "raised" THEN 1 ELSE 0)
            /\ cache' = CacheAfterBuild(DirOf(category), category, build)
            /\ cycle' = Returned([cycle EXCEPT
                           !.pc = AfterBuild(build, then),
                           !.failed = IF build = "ok" THEN @ ELSE category,
                           !.evaluated = @ \cup {category},
                           !.before = Attempt(category),
                           !.changes["procedural"].total_changes =
                               @ + (IF gen \in {"saved", "not_saved"} THEN 1 ELSE 0)])
            /\ last' = [Call("build", NoId, FALSE, IF build = "ok" THEN "None" ELSE "raised")
                          EXCEPT !.category = category, !.step = gen]
       ELSE /\ build = "ok"
            /\ UNCHANGED <<faults, cache>>
            /\ cycle' = Returned([cycle EXCEPT !.pc = then, !.evaluated = @ \cup {category}])
            /\ last' = [Call("skip", NoId, FALSE, "None") EXCEPT !.category = category]

\* Lines 122-129.
RebuildSemantic(build) ==
    /\ Rebuild("semantic", build, "episodic", "none")
    /\ UNCHANGED <<peer, versions, registry, snapshots, live, backups, fs, clock, taken, budget>>

\* The rule generation after an episodic rebuild: no rules come back (or
\* none were asked for); load_episodic_examples or generate_procedural_rules
\* raises; rules come back and save_generated_rules writes them; or it
\* fails to open the file and says so on the console.
GenOutcomes == {"no_rules", "raised", "saved", "not_saved"}

GenerationEscapes(gen, then) == IF gen = "raised" THEN "crashed" ELSE then

\* try: ... except Exception as e: print(Warning): main goes on to the
\* step named however the rule generation went.
AfterGeneration(gen, then) == then

\* Lines 131-152.
RebuildEpisodic(build, gen) ==
    LET generating == Wanted("episodic") /\ build = "ok" /\ ~cycle.args.skip_procedural_gen
        rules == generating /\ gen \in {"saved", "not_saved"}
    IN  /\ ~generating => gen = "no_rules"
        /\ Rebuild("episodic", build, AfterGeneration(gen, "procedural"), gen)
        /\ IF rules
           THEN \E c \in Contents :
                   fs' = [fs EXCEPT ![procedural_data_dir] =
                             Present(IF gen = "saved" THEN Put(@.files, generated_rules, c)
                                     ELSE @.files)]
           ELSE UNCHANGED fs
        /\ UNCHANGED <<peer, versions, registry, snapshots, live, backups, clock, taken, budget>>

\* Lines 154-161, and the test of line 163.
RebuildProcedural(build) ==
    /\ Rebuild("procedural", build,
               IF cycle.args.create_version THEN "version" ELSE "done", "none")
    /\ UNCHANGED <<peer, versions, registry, snapshots, live, backups, fs, clock, taken, budget>>

\* prompts_dir.glob('*.md'): the .md files of the prompt directory.
prompt_files ==
    IF fs[system_prompts_dir].exists
    THEN {f \in DOMAIN fs[system_prompts_dir].files : endswith(f, {".md"})}
    ELSE {}

\* Lines 163-195: the statistics, the four directory hashes, the first
\* prompt file found, and create_version.
CycleCreateVersion(stats, system_prompt_file) ==
    /\ cycle.pc = "version"
    /\ IF prompt_files = {} THEN system_prompt_file = NoFile
       ELSE system_prompt_file \in prompt_files
    /\ LET data_hash == [c \in Categories |-> _compute_directory_hash(DirOf(c))]
           metadata == [changes |-> cycle.changes]
       IN  \E o \in Affordable(create_version(stats, data_hash, metadata)) :
              /\ versions' = o.versions
              /\ registry' = o.registry
              /\ faults' = faults + o.faults
              /\ cycle' = [cycle EXCEPT !.pc = IF o.ret = "id" THEN "track" ELSE "crashed",
                                        !.version_id = o.version_id,
                                        !.system_prompt_file = system_prompt_file]
              /\ last' = [Call("create_version", o.version_id, FALSE, o.ret)
                            EXCEPT !.saved = o.saved]
    /\ UNCHANGED <<peer, snapshots, live, backups, fs, cache, clock, taken, budget>>

\* Lines 197-202: main records the prompt file on the version it has just
\* created and saves the registry again.
TrackPrompt ==
    /\ cycle.pc = "track"
    /\ LET i == FindVersion(cycle.version_id)
           vs == [versions EXCEPT ![i].system_prompt_file = cycle.system_prompt_file]
       IN  /\ versions' = vs
           /\ \E io \in IOOutcomes :
                 /\ io # "ok" => faults < MaxFaults
                 /\ faults' = faults + (IF io = "ok" THEN 0 ELSE 1)
                 /\ registry' = _save_registry(vs, io)
                 /\ cycle' = [cycle EXCEPT !.pc = IF io = "ok" THEN "snapshot" ELSE "crashed"]
                 /\ last' = [Call("track_prompt", cycle.version_id, FALSE,
                                  IF io = "ok" THEN "None" ELSE "raised")
                               EXCEPT !.saved = (io # "open_failed")]
    /\ UNCHANGED <<peer, snapshots, live, backups, fs, cache, clock, taken, budget>>

\* Lines 208-214: the snapshot of the new version; main goes on to its end
\* whatever create_snapshot returns.
SnapshotCycleVersion ==
    /\ cycle.pc = "snapshot"
    /\ \E o \in Affordable(create_snapshot(cycle.version_id, cycle.system_prompt_file)) :
          /\ snapshots' = o.snapshots
          /\ taken' = IF o.ret
                      THEN [v \in DOMAIN taken \cup {cycle.version_id} |->
                               IF v = cycle.version_id THEN live.files ELSE taken[v]]
                      ELSE [v \in DOMAIN taken \ {cycle.version_id} |-> taken[v]]
          /\ faults' = faults + o.faults
          /\ last' = [Call("create_snapshot", cycle.version_id, FALSE,
                           BoolReturn(o.ret))
                        EXCEPT !.step = o.step]
    /\ cycle' = Returned([cycle EXCEPT !.pc = "done"])
    /\ UNCHANGED <<peer, versions, registry, live, backups, fs, cache, clock, budget>>

(***************************************************************************)
(* SpecCycle: rebuild cycles run one after another from an empty cache,    *)
(* and the owner edits the episodic data between them.                     *)
(***************************************************************************)
NextCycle ==
    \/ \E a \in ArgInputs : Analyze(a)
    \/ \E b \in BuildOutcomes : RebuildSemantic(b)
    \/ \E b \in BuildOutcomes, g \in GenOutcomes : RebuildEpisodic(b, g)
    \/ \E b \in BuildOutcomes : RebuildProcedural(b)
    \/ \E st \in StatsInputs, f \in prompt_files \cup {NoFile} : CycleCreateVersion(st, f)
    \/ TrackPrompt
    \/ SnapshotCycleVersion
    \/ EditData(DirOf("episodic"), {File("c", ".txt")})

InitCycle ==
    /\ versions = <<>>
    /\ peer = <<>>
    /\ registry = [valid |-> TRUE, versions |-> <<>>]
    /\ snapshots = [v \in {} |-> 0]
    /\ live = Present(InitStore)
    /\ backups = [t \in {} |-> 0]
    /\ fs = InitData
    /\ cache = [c \in {} |-> 0]
    /\ clock = 0
    /\ cycle = Idle
    /\ taken = [v \in {} |-> 0]
    /\ last = Call("init", NoId, FALSE, "None")
    /\ budget = MaxEdits
    /\ faults = 0

SpecCycle == InitCycle /\ [][NextCycle]_vars

\* IncrementalBuilder.incremental_build_semantic, called on its own: the
\* status it returns, or the exception of the build routine.
IncrementalBuildSemantic(force_rebuild, build) ==
    /\ cycle.pc \in Terminal
    /\ IF ~force_rebuild /\ ~needs_rebuild(DirOf("semantic"), "semantic")
       THEN /\ build = "ok"
            /\ cycle' = Idle
            /\ last' = [Call("incremental_build_semantic", NoId, force_rebuild, "skipped")
                          EXCEPT !.category = "semantic"]
            /\ UNCHANGED <<cache, faults>>
       ELSE /\ build = "raised" => faults < MaxFaults
            /\ faults' = faults + (IF build = "raised" THEN 1 ELSE 0)
            /\ cache' = CacheAfterBuild(DirOf("semantic"), "semantic", build)
            /\ cycle' = IF build = "ok" THEN Idle
                        ELSE [Idle EXCEPT !.pc = "crashed", !.failed = "semantic",
                                          !.evaluated = {"semantic"},
                                          !.before = Attempt("semantic")]
            /\ last' = [Call("incremental_build_semantic", NoId, force_rebuild,
                             IF build = "ok" THEN "rebuilt" ELSE "raised")
                          EXCEPT !.category = "semantic",
                                 !.changes = detect_changes(DirOf("semantic"), "semantic")]
    /\ UNCHANGED <<peer, versions, registry, snapshots, live, backups, fs, clock, taken, budget>>

(***************************************************************************)
(* SpecBuild: the rebuild cycles that create no version and the semantic   *)
(* build called on its own, with any file of the episodic or the semantic  *)
(* data edited in between.                                                 *)
(***************************************************************************)
NextBuild ==
    \/ \E fr \in BOOLEAN, b \in BuildOutcomes : IncrementalBuildSemantic(fr, b)
    \/ \E d \in {DirOf("episodic"), DirOf("semantic")} : EditData(d, DataFiles)
    \/ \E a \in {x \in ArgInputs : ~x.create_version} : Analyze(a)
    \/ \E b \in BuildOutcomes : RebuildSemantic(b)
    \/ \E b \in BuildOutcomes, g \in GenOutcomes : RebuildEpisodic(b, g)
    \/ \E b \in BuildOutcomes : RebuildProcedural(b)

SpecBuild == InitCycle /\ [][NextBuild]_vars

(***************************************************************************)
(* Claims about the rebuild cycle, under SpecCycle.                        *)
(***************************************************************************)
\* C4: when a category's build routine raises in a rebuild cycle, the
\* category's cache entry is after the attempt what it was before it, and
\* detect_changes for the category, the files being as they were, returns
\* the added, modified and deleted sets it returned before the attempt.
C4_CacheKeptOnFailure ==
    (cycle.pc = "crashed" /\ cycle.failed \in Categories) =>
        /\ (cycle.failed \in DOMAIN cache) = cycle.before.cached
        /\ cached_files(cycle.failed) = cycle.before.entry
        /\ detect_changes(DirOf(cycle.failed), cycle.failed) = cycle.before.changes

\* C4's case: the build of a category that has an entry in the cache, and a
\* file modified since the entry was written, has raised.
C4_Witness ==
    /\ cycle.pc = "crashed" /\ cycle.failed \in Categories
    /\ last.op = "build" /\ last.ret = "raised"
    /\ "semantic" \in DOMAIN cache
    /\ cycle.before.cached /\ cycle.before.changes.modified # {}

\* The categories main comes to after a category.
After(category) ==
    CASE category = "semantic" -> {"episodic", "procedural"}
      [] category = "episodic" -> {"procedural"}
      [] OTHER -> {}

\* C5: when a category's build routine has raised in a rebuild cycle, the
\* cycle comes to its end having evaluated the categories after that one,
\* and the change summary it hands back for the category holds, besides
\* the four counts, a record of the failure.
C5_CycleContinues ==
    (cycle.failed \in Categories /\ cycle.pc \in Terminal) =>
        /\ After(cycle.failed) \subseteq cycle.evaluated
        /\ \E k \in DOMAIN cycle.changes[cycle.failed] :
              k \notin {"added", "modified", "deleted", "total_changes"}

\* C8: when a rebuild cycle has run to completion and no file has changed
\* since, the change analysis of the next cycle (not forced) reports zero
\* changes for each of the four categories, and the cycle returns saying
\* that everything is up to date.
C8_NextCycleUpToDate ==
    [][(cycle.pc = "done" /\ last'.op = "analyze" /\ ~last'.flag) =>
          /\ \A c \in Categories : cycle'.changes[c].total_changes = 0
          /\ cycle'.pc = "up_to_date"]_vars

(***************************************************************************)
(* Claims about restore_snapshot's backup, under SpecSnap.                 *)
(***************************************************************************)
\* C11: whatever step of restore_snapshot fails, or none, a live directory
\* that existed before the call either is afterwards as it was, or a
\* backup holds all its files as they were; and a restore that returns
\* False leaves every backup that existed before it as it was.
C11_BackupBeforeReplace ==
    [][last'.op = "restore_snapshot" =>
          /\ live.exists =>
                \/ live' = live
                \/ \E t \in DOMAIN backups' : backups'[t] = live.files
          /\ last'.ret = "False" =>
                \A t \in DOMAIN backups :
                    t \in DOMAIN backups' /\ backups'[t] = backups[t]]_vars

\* C11's case: the restore failed after the backup, while removing the
\* live directory or while copying the snapshot into its place, and the
\* live directory is no longer what the backup holds.
C11_Witness ==
    /\ last.op = "restore_snapshot" /\ last.ret = "False"
    /\ last.step \in {"rmtree", "copytree"}
    /\ clock \in DOMAIN backups
    /\ backups[clock] # EmptyDir
    /\ (~live.exists \/ live.files # backups[clock])

(***************************************************************************)
(* VersionManager: the queries.                                            *)
(***************************************************************************)
\* dict.get(key, default)
get(d, key, default) == IF key \in DOMAIN d THEN d[key] ELSE default

\* hash[:8]
Truncate8(hash) == SubSeq(hash, 1, IF Len(hash) < 8 THEN Len(hash) ELSE 8)

\* The {} that get_version_diff returns when it misses a version.
EmptyResult == [k \in {} |-> 0]

DiffOfShared(v1, v2) ==
    [collection_changes |->
        [c \in {k \in DOMAIN v1.collections \cap DOMAIN v2.collections :
                   v1.collections[k] # v2.collections[k]} |->
            [before |-> v1.collections[c], after |-> v2.collections[c],
             delta |-> v2.collections[c] - v1.collections[c]]],
     data_hash_changes |->
        [t \in {k \in DOMAIN v1.data_hash \cap DOMAIN v2.data_hash :
                   v1.data_hash[k] # v2.data_hash[k]} |->
            [changed |-> TRUE, before |-> v1.data_hash[t], after |-> v2.data_hash[t]]]]

\* The body of get_version_diff after the two lookups: per collection of
\* either version whose counts differ, and per data type of either version
\* whose hashes differ, what was and what is.
DiffOf(v1, v2) ==
    [collection_changes |->
        [c \in {k \in DOMAIN v1.collections \cup DOMAIN v2.collections :
                   get(v1.collections, k, 0) # get(v2.collections, k, 0)} |->
            [before |-> get(v1.collections, c, 0),
             after |-> get(v2.collections, c, 0),
             delta |-> get(v2.collections, c, 0) - get(v1.collections, c, 0)]],
     data_hash_changes |->
        [t \in {k \in DOMAIN v1.data_hash \cup DOMAIN v2.data_hash :
                   get(v1.data_hash, k, <<>>) # get(v2.data_hash, k, <<>>)} |->
            [changed |-> TRUE,
             before |-> Truncate8(get(v1.data_hash, t, <<>>)),
             after |-> Truncate8(get(v2.data_hash, t, <<>>))]]]

DiffOfFound(version_id1, version_id2) ==
    LET i1 == FindVersion(version_id1)
        i2 == FindVersion(version_id2)
        NoVersion == MemoryVersion(NoId, 0, [k \in {} |-> 0], [k \in {} |-> 0], <<>>)
    IN  DiffOf(IF i1 = 0 THEN NoVersion ELSE versions[i1],
               IF i2 = 0 THEN NoVersion ELSE versions[i2])

\* get_version_diff: each id is looked up as next(v for v in self.versions
\* if v.version_id == id); {} when either is missing.
get_version_diff(version_id1, version_id2) ==
    LET i1 == FindVersion(version_id1)
        i2 == FindVersion(version_id2)
    IN  IF i1 = 0 \/ i2 = 0 THEN EmptyResult
        ELSE DiffOf(versions[i1], versions[i2])

\* os.path.getsize: a content of the alphabet stands for a file of that
\* many blocks of 512 bytes.
getsize(content) == 512 * content

RECURSIVE TotalSize(_)
TotalSize(files) ==
    IF DOMAIN files = {} THEN 0
    ELSE LET f == CHOOSE n \in DOMAIN files : TRUE
         IN  getsize(files[f]) + TotalSize(Remove(files, f))

\* get_snapshot_size: 0 without the directory, else the sizes of the files
\* os.walk finds under it, system_prompt.md among them.
get_snapshot_size(version_id) ==
    IF version_id \notin DOMAIN snapshots THEN 0
    ELSE TotalSize(snapshots[version_id].files)
         + (IF snapshots[version_id].prompt = NoPrompt THEN 0
            ELSE getsize(snapshots[version_id].prompt))

\* list_versions: self.versions itself.
list_versions == versions

GetVersionDiff(version_id1, version_id2) ==
    /\ Running
    /\ last' = [Call("get_version_diff", version_id1, FALSE, "dict")
                  EXCEPT !.other = version_id2,
                         !.result = get_version_diff(version_id1, version_id2)]
    /\ UNCHANGED <<peer, versions, registry, snapshots, live, backups, fs, cache, clock,
                   cycle, taken, budget, faults>>

GetSnapshotSize(version_id) ==
    /\ Running
    /\ last' = [Call("get_snapshot_size", version_id, FALSE, "int")
                  EXCEPT !.result = get_snapshot_size(version_id)]
    /\ UNCHANGED <<peer, versions, registry, snapshots, live, backups, fs, cache, clock,
                   cycle, taken, budget, faults>>

ListVersions ==
    /\ Running
    /\ last' = [Call("list_versions", NoId, FALSE, "list") EXCEPT !.result = list_versions]
    /\ UNCHANGED <<peer, versions, registry, snapshots, live, backups, fs, cache, clock,
                   cycle, taken, budget, faults>>

(***************************************************************************)
(* VersionManager: the retention of snapshots.                             *)
(***************************************************************************)
\* ord('_'), and ord of a decimal digit.
Underscore == 95

ord(digit) == 48 + digit

RECURSIVE Digits(_)
Digits(n) == IF n < 10 THEN <<ord(n)>> ELSE Append(Digits(n \div 10), ord(n % 10))

\* f"v{len(self.versions) + 1}_{now:%Y%m%d_%H%M%S}", from the "v" on: the
\* sequence number in decimal, the underscore, the time in its fixed width.
IdString(version_id) == Digits(version_id[1]) \o <<Underscore, ord(version_id[2])>>

\* str.__lt__: the first position that differs decides; a proper prefix
\* is the smaller.
StrLess(a, b) ==
    \E i \in 1..Len(b) :
        /\ i <= Len(a) + 1
        /\ \A j \in 1..(i - 1) : a[j] = b[j]
        /\ i = Len(a) + 1 \/ a[i] < b[i]

RECURSIVE SortedAscending(_)
SortedAscending(ids) ==
    IF ids = {} THEN <<>>
    ELSE LET least == CHOOSE m \in ids :
                         \A x \in ids \ {m} : StrLess(IdString(m), IdString(x))
         IN  <<least>> \o SortedAscending(ids \ {least})

\* snapshots.sort(reverse=True)
RECURSIVE SortedDescending(_)
SortedDescending(ids) ==
    IF ids = {} THEN <<>>
    ELSE LET greatest == CHOOSE m \in ids :
                            \A x \in ids \ {m} : StrLess(IdString(x), IdString(m))
         IN  <<greatest>> \o SortedDescending(ids \ {greatest})

\* What a shutil.rmtree that raised may leave of a snapshot directory.
HalfRemoved(snap) ==
    {Snapshot(Restrict(snap.files, S), p) :
        S \in SUBSET DOMAIN snap.files, p \in {NoPrompt, snap.prompt}}

\* The outcomes of cleanup_old_snapshots: delete_snapshot is called for
\* every snapshot after the first keep_last of the sorted list; the ones it
\* returns False for are not counted, and stay, whole or in part.
cleanup_old_snapshots(keep_last) ==
    LET sorted == SortedDescending(list_snapshots)
        old == {sorted[i] : i \in (keep_last + 1)..Len(sorted)}
    IN  IF Len(sorted) <= keep_last
        THEN {[ret |-> 0, faults |-> 0, snapshots |-> snapshots]}
        ELSE {[ret |-> Cardinality(old \ DOMAIN left),
               faults |-> Cardinality(DOMAIN left),
               snapshots |-> [v \in DOMAIN snapshots \ (old \ DOMAIN left) |->
                                 IF v \in DOMAIN left THEN left[v] ELSE snapshots[v]]] :
               left \in UNION {{l \in [F -> UNION {HalfRemoved(snapshots[v]) : v \in F}] :
                                   \A v \in F : l[v] \in HalfRemoved(snapshots[v])} :
                               F \in SUBSET old}}

CleanupOldSnapshots(keep_last) ==
    /\ Running
    /\ \E o \in Affordable(cleanup_old_snapshots(keep_last)) :
          /\ snapshots' = o.snapshots
          /\ faults' = faults + o.faults
          /\ taken' = [v \in DOMAIN taken \cap DOMAIN o.snapshots |-> taken[v]]
          /\ last' = [Call("cleanup_old_snapshots", NoId, FALSE, "int")
                        EXCEPT !.result = [deleted |-> o.ret, keep_last |-> keep_last],
                               !.step = IF o.faults = 0 THEN "done" ELSE "rmtree"]
    /\ UNCHANGED <<peer, versions, registry, live, backups, fs, cache, clock, cycle, budget>>

(***************************************************************************)
(* SpecHist: one VersionManager with every call that writes: versions are  *)
(* created and snapshotted, rolled back to, restored, their snapshots      *)
(* deleted or cleaned up, with known and unknown ids, and listed.          *)
(***************************************************************************)
NextHist ==
    \/ \E c \in StatsInputs, h \in HashInputs : CreateVersion(c, h)
    \/ \E v \in CallIds, rd \in BOOLEAN : RollbackToVersion(v, rd)
    \/ SnapshotNewVersion
    \/ \E v \in CallIds, rp \in BOOLEAN : RestoreSnapshot(v, rp)
    \/ \E v \in CallIds : DeleteSnapshot(v)
    \/ \E keep_last \in 0..1 : CleanupOldSnapshots(keep_last)
    \/ ListVersions

SpecHist == Init /\ [][NextHist]_vars

(***************************************************************************)
(* SpecQuery: one VersionManager whose versions are created and            *)
(* snapshotted, and the calls that take the id of a snapshot or of a       *)
(* version, with ids that are there and ids that are not.                  *)
(***************************************************************************)
NextQuery ==
    \/ \E c \in StatsInputs, h \in HashInputs : CreateVersion(c, h)
    \/ SnapshotNewVersion
    \/ \E v \in CallIds, rp \in BOOLEAN : RestoreSnapshot(v, rp)
    \/ \E v \in CallIds : DeleteSnapshot(v)
    \/ \E v \in CallIds : GetSnapshotSize(v)
    \/ \E v1 \in CallIds, v2 \in CallIds : GetVersionDiff(v1, v2)

SpecQuery == Init /\ [][NextQuery]_vars

(***************************************************************************)
(* Claims about ids that are not there, under SpecQuery.                   *)
(***************************************************************************)
\* C12: restore_snapshot of a snapshot that is not there returns False,
\* makes no backup and leaves the live directory alone; delete_snapshot of
\* one returns False; get_snapshot_size of one is 0; get_version_diff with
\* an id no version has returns the empty result; and none of them changes
\* the versions, the registry, the snapshots or the files.
C12_AbsentIsSentinel ==
    [][/\ (last'.op \in {"restore_snapshot", "delete_snapshot", "get_snapshot_size"}
           /\ last'.version_id \notin DOMAIN snapshots) =>
              /\ last'.op = "get_snapshot_size" => last'.result = 0
              /\ last'.op # "get_snapshot_size" => last'.ret = "False"
              /\ UNCHANGED <<versions, registry, snapshots, live, backups, fs>>
       /\ (last'.op = "get_version_diff"
           /\ (last'.version_id \notin KnownIds \/ last'.other \notin KnownIds)) =>
              /\ last'.result = EmptyResult
              /\ UNCHANGED <<versions, registry, snapshots, live, backups, fs>>]_vars

\* C12's case: with two versions and a snapshot at hand, get_version_diff
\* was asked about a version of the registry and an id that no version has.
C12_Witness ==
    /\ last.op = "get_version_diff"
    /\ last.version_id \in KnownIds /\ last.other \notin KnownIds
    /\ Len(versions) = 2 /\ snapshots # <<>>
    /\ live.exists

(***************************************************************************)
(* SpecCleanup: a VersionManager opened on a snapshot directory that holds *)
(* any of five snapshots, of versions 1, 2, 9 and 10; cleanups of every    *)
(* size follow one another.                                                *)
(***************************************************************************)
MaxKeep == 3        \* the largest keep_last asked for

SnapshotIds == {<<1, 0>>, <<1, 1>>, <<2, 0>>, <<9, 1>>, <<10, 0>>}

InitCleanup ==
    /\ versions = <<>>
    /\ peer = <<>>
    /\ registry = [valid |-> TRUE, versions |-> <<>>]
    /\ snapshots \in UNION {[S -> {Snapshot(Restrict(InitStore, {File("storage", ".sqlite")}),
                                            NoPrompt)}] : S \in SUBSET SnapshotIds}
    /\ live = Present(InitStore)
    /\ backups = [t \in {} |-> 0]
    /\ fs = InitData
    /\ cache = [c \in {} |-> 0]
    /\ clock = 0
    /\ cycle = Idle
    /\ taken = [v \in {} |-> 0]
    /\ last = Call("init", NoId, FALSE, "None")
    /\ budget = MaxMutations
    /\ faults = 0

NextCleanup == \E keep_last \in 0..MaxKeep : CleanupOldSnapshots(keep_last)

SpecCleanup == InitCleanup /\ [][NextCleanup]_vars

\* C13: with M snapshots, cleanup_old_snapshots(N) of which no deletion
\* fails returns 0 and deletes nothing when M <= N; when M > N it returns
\* M - N, deletes M - N snapshots and leaves N, each of them greater, as a
\* string, than every one deleted; and called again at once with the same
\* N it returns 0.
C13_CleanupKeepsNewest ==
    [][(last'.op = "cleanup_old_snapshots" /\ last'.step = "done") =>
         LET M == Cardinality(DOMAIN snapshots)
             N == last'.result.keep_last
             deleted == DOMAIN snapshots \ DOMAIN snapshots'
         IN  /\ DOMAIN snapshots' \subseteq DOMAIN snapshots
             /\ \A v \in DOMAIN snapshots' : snapshots'[v] = snapshots[v]
             /\ M <= N => /\ last'.result.deleted = 0
                          /\ deleted = {}
             /\ M > N => /\ last'.result.deleted = M - N
                         /\ Cardinality(deleted) = M - N
                         /\ Cardinality(DOMAIN snapshots') = N
                         /\ \A k \in DOMAIN snapshots', d \in deleted :
                               StrLess(IdString(d), IdString(k))
             /\ (/\ last.op = "cleanup_old_snapshots" /\ last.step = "done"
                 /\ last.result.keep_last = N) => last'.result.deleted = 0]_vars

\* C13's case: a cleanup that kept two of five snapshots, v9 and v2 and
\* not v10, and deleted the three others.
C13_Witness ==
    /\ last.op = "cleanup_old_snapshots" /\ last.step = "done"
    /\ last.result = [deleted |-> 3, keep_last |-> 2]
    /\ DOMAIN snapshots = {<<9, 1>>, <<2, 0>>}

(***************************************************************************)
(* SpecDiff: a VersionManager opened on a registry of two versions, with   *)
(* any collection counts and data hashes, some missing; the differences    *)
(* between them are asked for.                                             *)
(***************************************************************************)
\* Point counts of some of two collections.
CountInputs ==
    UNION {[S -> {0, 2}] : S \in SUBSET {"semantic_memory_hg", "episodic_memory_hg"}}

\* Two digests that agree on their first eight characters.
DigestInputs == {<<1, 1, 1, 1, 1, 1, 1, 1, 1>>, <<1, 1, 1, 1, 1, 1, 1, 1, 2>>}

DataHashInputs == UNION {[S -> DigestInputs] : S \in SUBSET {"semantic", "episodic"}}

InitDiff ==
    /\ versions \in {Append(Deactivate(<<MemoryVersion(NewVersionId(<<>>, 0), 0, c1, h1, <<>>)>>),
                            MemoryVersion(NewVersionId(<<0>>, 0), 0, c2, h2, <<>>)) :
                        c1 \in CountInputs, c2 \in CountInputs,
                        h1 \in DataHashInputs, h2 \in DataHashInputs}
    /\ peer = <<>>
    /\ registry = [valid |-> TRUE, versions |-> versions]
    /\ snapshots = [v \in {} |-> 0]
    /\ live = Present(InitStore)
    /\ backups = [t \in {} |-> 0]
    /\ fs = InitData
    /\ cache = [c \in {} |-> 0]
    /\ clock = 0
    /\ cycle = Idle
    /\ taken = [v \in {} |-> 0]
    /\ last = Call("init", NoId, FALSE, "None")
    /\ budget = MaxMutations
    /\ faults = 0

NextDiff == \E v1 \in KnownIds, v2 \in KnownIds : GetVersionDiff(v1, v2)

SpecDiff == InitDiff /\ [][NextDiff]_vars

\* The version of the registry that has the id.
VersionOf(version_id) ==
    CHOOSE v \in {versions[i] : i \in DOMAIN versions} : v.version_id = version_id

\* C14: for versions A and B of the registry, get_version_diff(A, B) has
\* under collection_changes the collections whose counts differ, a missing
\* count being 0, with before the count of A, after that of B and delta
\* their difference, and under data_hash_changes the data types whose
\* hashes differ; get_version_diff(B, A) has the same keys, the deltas
\* negated, before and after exchanged; get_version_diff(A, A) is empty.
C14_DiffAlgebra ==
    (last.op = "get_version_diff" /\ last.version_id \in KnownIds /\ last.other \in KnownIds) =>
    LET A == VersionOf(last.version_id)
        B == VersionOf(last.other)
        count(v, c) == IF c \in DOMAIN v.collections THEN v.collections[c] ELSE 0
        differs(t) == \/ (t \in DOMAIN A.data_hash) # (t \in DOMAIN B.data_hash)
                      \/ /\ t \in DOMAIN A.data_hash /\ t \in DOMAIN B.data_hash
                         /\ A.data_hash[t] # B.data_hash[t]
        ab == last.result
        ba == get_version_diff(last.other, last.version_id)
    IN  /\ DOMAIN ab.collection_changes = {c \in Collections : count(A, c) # count(B, c)}
        /\ \A c \in DOMAIN ab.collection_changes :
              /\ ab.collection_changes[c].before = count(A, c)
              /\ ab.collection_changes[c].after = count(B, c)
              /\ ab.collection_changes[c].delta = count(B, c) - count(A, c)
        /\ DOMAIN ab.data_hash_changes = {t \in Categories : differs(t)}
        /\ DOMAIN ba.collection_changes = DOMAIN ab.collection_changes
        /\ DOMAIN ba.data_hash_changes = DOMAIN ab.data_hash_changes
        /\ \A c \in DOMAIN ab.collection_changes :
              /\ ba.collection_changes[c].delta = 0 - ab.collection_changes[c].delta
              /\ ba.collection_changes[c].before = ab.collection_changes[c].after
              /\ ba.collection_changes[c].after = ab.collection_changes[c].before
        /\ \A t \in DOMAIN ab.data_hash_changes :
              /\ ba.data_hash_changes[t].before = ab.data_hash_changes[t].after
              /\ ba.data_hash_changes[t].after = ab.data_hash_changes[t].before
        /\ last.version_id = last.other =>
              /\ DOMAIN ab.collection_changes = {}
              /\ DOMAIN ab.data_hash_changes = {}

\* C14's case: the difference of two distinct versions, where a collection
\* one of them lacks has points in the other, and a data type has digests
\* that differ after their eighth character.
C14_Witness ==
    /\ last.op = "get_version_diff" /\ last.version_id # last.other
    /\ last.version_id \in KnownIds /\ last.other \in KnownIds
    /\ \E c \in DOMAIN last.result.collection_changes :
          /\ c \notin DOMAIN VersionOf(last.version_id).collections
          /\ last.result.collection_changes[c].delta = 2
    /\ \E t \in DOMAIN last.result.data_hash_changes :
          last.result.data_hash_changes[t].before = last.result.data_hash_changes[t].after

(***************************************************************************)
(* SpecReg: one VersionManager whose versions are created and rolled back  *)
(* to while the clock stands still, moves on or is set back.               *)
(***************************************************************************)
NextReg ==
    \/ \E c \in StatsInputs, h \in HashInputs : CreateVersion(c, h)
    \/ \E v \in CallIds, rd \in BOOLEAN : RollbackToVersion(v, rd)
    \/ Tick

SpecReg == Init /\ [][NextReg]_vars

\* C15: the version ids of the list in memory are pairwise distinct, and
\* so are those of the registry file.
C15_UniqueIds ==
    /\ \A i, j \in DOMAIN versions :
          i # j => versions[i].version_id # versions[j].version_id
    /\ \A i, j \in DOMAIN registry.versions :
          i # j => registry.versions[i].version_id # registry.versions[j].version_id

\* C15's case: two versions created within one second, the first of them
\* rolled back to, and the clock at another second than theirs.
C15_Witness ==
    /\ Len(versions) >= 2
    /\ versions[1].timestamp = versions[2].timestamp
    /\ last.op = "rollback_to_version" /\ last.ret = "True"
    /\ versions[1].is_active
    /\ clock # versions[1].timestamp

\* C16: when the registry write of create_version or of
\* rollback_to_version has failed, the registry file still holds what it
\* held, and the list in memory, flags included, is what the file holds.
C16_MemoryMatchesDisk ==
    (last.op \in {"create_version", "rollback_to_version"} /\ last.ret = "raised") =>
        /\ registry.valid
        /\ versions = registry.versions

\* The first list begins with the records of the second, in their order,
\* each with the fields that are written once, at its creation.
Extends(after, before) ==
    LET Created(v) == [version_id |-> v.version_id, timestamp |-> v.timestamp,
                       collections |-> v.collections, data_hash |-> v.data_hash,
                       metadata |-> v.metadata]
    IN  /\ Len(after) >= Len(before)
        /\ \A i \in DOMAIN before : Created(after[i]) = Created(before[i])

\* C17: every call leaves the version list of the VersionManager, and the
\* registry file whenever its write succeeds, an extension of what it
\* was: no record removed or moved, none changed but in is_active and
\* system_prompt_file; the calls on snapshots leave the list as it was;
\* and list_versions returns the list, the records in the order of their
\* sequence numbers.
C17_AppendOnly ==
    [][/\ Extends(versions', versions)
       /\ (registry.valid /\ registry'.valid) => Extends(registry'.versions, registry.versions)
       /\ last'.op \in {"create_snapshot", "restore_snapshot", "delete_snapshot",
                        "cleanup_old_snapshots"} => versions' = versions
       /\ last'.op = "list_versions" =>
             /\ last'.result = versions'
             /\ \A i \in DOMAIN last'.result : last'.result[i].version_id[1] = i]_vars

\* C17's case: of two versions the first was rolled back to, and its
\* snapshot has then been deleted.
C17_Witness ==
    /\ Len(versions) = 2 /\ versions[1].is_active
    /\ last.op \in {"delete_snapshot", "cleanup_old_snapshots"}
    /\ versions[1].version_id \notin DOMAIN snapshots
    /\ faults = 0

\* The id of the last record of a list of versions, NoId for an empty list.
LastOf(vs) == IF vs = <<>> THEN NoId ELSE vs[Len(vs)].version_id

\* C18 (as claimed): a create_version that returns leaves the version it
\* created as the last record and as what get_active_version returns;
\* get_active_version returns none only when there is no version; and the
\* active version becomes a record other than the last one only in a
\* rollback_to_version that returns True.
C18_ActiveIsLast ==
    [][/\ (last'.op = "create_version" /\ last'.ret = "id") =>
             /\ LastOf(versions') = last'.version_id
             /\ ActiveOf(versions') = last'.version_id
       /\ ActiveOf(versions') = NoId => versions' = <<>>
       /\ (ActiveOf(versions') # ActiveOf(versions) /\ ActiveOf(versions') # LastOf(versions')) =>
             (last'.op = "rollback_to_version" /\ last'.ret = "True")]_vars

(***************************************************************************)
(* The order of the builds and of the cache updates, under SpecBuild.      *)
(***************************************************************************)
\* C19: main comes to the semantic block first, to the episodic block with
\* only the semantic one behind it, and to the procedural block with those
\* two behind it; and when a category's build has returned, update_cache
\* has run for it before main is at the next block: the category has its
\* cache entry, and detect_changes finds nothing changed in it.
C19_BuildOrder ==
    /\ cycle.pc = "semantic" => cycle.evaluated = {}
    /\ cycle.pc = "episodic" => cycle.evaluated = {"semantic"}
    /\ cycle.pc = "procedural" => cycle.evaluated = {"semantic", "episodic"}
    /\ (last.op = "build" /\ last.ret = "None") =>
          /\ last.category \in cycle.evaluated \/ cycle.pc = "done"
          /\ last.category \in DOMAIN cache
          /\ cached_files(last.category) = current_files(DirOf(last.category))
          /\ detect_changes(DirOf(last.category), last.category) = NoChanges

\* C19's case: the episodic build has returned, after files of its
\* directory had changed, in a cycle that rebuilt the semantic category
\* too; main is at the procedural block.
C19_Witness ==
    /\ cycle.pc = "procedural"
    /\ last.op = "build" /\ last.ret = "None" /\ last.category = "episodic"
    /\ Wanted("semantic") /\ Wanted("episodic")
    /\ cycle.before.changes # NoChanges

(***************************************************************************)
(* The boundary of the snapshot calls, under SpecSnap.                     *)
(***************************************************************************)
\* C20: create_snapshot and restore_snapshot hand their caller True or
\* False and nothing else, whatever step failed: False whenever the call
\* stopped before its end (the live directory or the snapshot missing, a
\* removal or a copy failing), True only when it ran to its end; and the
\* VersionManager can be called again afterwards.
C20_NeverRaises ==
    last.op \in {"create_snapshot", "restore_snapshot"} =>
        /\ last.ret \in {"True", "False"}
        /\ (last.ret = "False") = (last.step # "done")
        /\ Running

\* C20's case: the copy of the live directory into a new snapshot failed.
C20_Witness ==
    /\ last.op = "create_snapshot" /\ last.step = "copytree"
    /\ last.ret = "False"
    /\ faults = 1

(***************************************************************************)
(* The directory that is not there, under SpecCT.                          *)
(***************************************************************************)
\* C21: detect_changes for a directory that does not exist returns three
\* empty sets and needs_rebuild returns False, whatever entry the cache
\* holds for the category; the call returns, and the cache is after it
\* what it was.
C21_AbsentDirectory ==
    [][(last'.op = "detect_changes" /\ ~fs[DirOf(last'.category)].exists) =>
          /\ last'.changes = NoChanges
          /\ ~needs_rebuild(DirOf(last'.category), last'.category)
          /\ last'.ret = "None"
          /\ cache' = cache]_vars

\* C21's case: detect_changes was called for the semantic directory, which
\* does not exist, while the cache holds hashes of files of an earlier
\* state of it.
C21_Witness ==
    /\ last.op = "detect_changes" /\ last.category = "semantic"
    /\ ~fs[DirOf("semantic")].exists
    /\ cached_files("semantic") # EmptyDir

(***************************************************************************)
(* SpecHash: _compute_directory_hash over a directory with subdirectories. *)
(* The directory is absent, or holds files and up to two subdirectories of *)
(* files; os.walk hands over the subdirectories in the order os.scandir    *)
(* lists them, which is any order.                                         *)
(***************************************************************************)
\* The directories hashed: fs is, in this specification, the one directory.
Trees ==
    LET Flat == UNION {[S -> Contents] : S \in SUBSET {File("a", ".md"), File("n", ".bak")}}
    IN  {[exists |-> FALSE, files |-> EmptyDir, dirs |-> <<>>]}
        \cup {[exists |-> TRUE, files |-> f, dirs |-> d] :
                f \in Flat, d \in UNION {[S -> Flat] : S \in SUBSET {"x", "y"}}}

\* The orders os.scandir may list the subdirectories in.
ScanOrders(tree) ==
    {o \in UNION {[1..n -> DOMAIN tree.dirs] : n \in {Cardinality(DOMAIN tree.dirs)}} :
        \A i \in DOMAIN o, j \in DOMAIN o : o[i] = o[j] => i = j}

\* for file in sorted(files): if file.endswith(...): the hashes of the
\* tracked files of one directory, in the order of their names.
FileHashes(files) ==
    LET walked == SelectSeq(SortedFiles, LAMBDA f : f \in DOMAIN files /\ Tracked(f))
    IN  [i \in DOMAIN walked |-> _compute_file_hash(files[walked[i]])]

\* for root, _, files in os.walk(directory): the top directory first, then
\* each subdirectory in the order listed; what the hasher is updated with.
RECURSIVE WalkHashes(_, _)
WalkHashes(tree, order) ==
    IF order = <<>> THEN FileHashes(tree.files)
    ELSE WalkHashes(tree, SubSeq(order, 1, Len(order) - 1))
         \o FileHashes(tree.dirs[order[Len(order)]])

HashDirectory(order) ==
    /\ last' = [Call("_compute_directory_hash", NoId, FALSE, "digest")
                  EXCEPT !.result = <<"sha256", WalkHashes(fs, order)>>]
    /\ UNCHANGED <<peer, versions, registry, snapshots, live, backups, fs, cache, clock,
                   cycle, taken, budget, faults>>

InitHash ==
    /\ versions = <<>>
    /\ peer = <<>>
    /\ registry = [valid |-> TRUE, versions |-> <<>>]
    /\ snapshots = [v \in {} |-> 0]
    /\ live = Present(InitStore)
    /\ backups = [t \in {} |-> 0]
    /\ fs \in Trees
    /\ cache = [c \in {} |-> 0]
    /\ clock = 0
    /\ cycle = Idle
    /\ taken = [v \in {} |-> 0]
    /\ last = Call("init", NoId, FALSE, "None")
    /\ budget = 0
    /\ faults = 0

NextHash == \E order \in ScanOrders(fs) : HashDirectory(order)

SpecHash == InitHash /\ [][NextHash]_vars

\* C22 (as claimed): two calls of _compute_directory_hash on a directory
\* that did not change in between return the same digest, whatever order
\* the subdirectories and files were listed in at each call; and a
\* directory that is absent, or holds no tracked file, has the digest of
\* nothing.
C22_HashDeterministic ==
    [][last'.op = "_compute_directory_hash" =>
          /\ last.op = "_compute_directory_hash" => last'.result = last.result
          /\ (\A o \in ScanOrders(fs) : WalkHashes(fs, o) = <<>>) =>
                last'.result = <<"sha256", <<>>>>]_vars

(***************************************************************************)
(* version_manager_cli: the rollback command.                              *)
(***************************************************************************)
\* cmd_rollback: a VersionManager is opened on the registry as last saved;
\* proceed says that every confirmation asked for was given (by --yes or at
\* the prompt).  --data-only takes part in what is printed only:
\* restore_data = not args.metadata_only.
CmdRollback(version_id, metadata_only, data_only, proceed) ==
    /\ Running
    /\ IF ~proceed
       THEN /\ last' = [Call("cmd_rollback", version_id, FALSE, "cancelled")
                          EXCEPT !.result = [metadata_only |-> metadata_only,
                                             data_only |-> data_only]]
            /\ UNCHANGED <<versions, registry, live, backups, fs, faults>>
       ELSE LET restore_data == ~metadata_only
            IN  \E o \in Affordable(rollback_to_version(version_id, restore_data)) :
                   /\ versions' = o.versions
                   /\ registry' = o.registry
                   /\ live' = o.live
                   /\ backups' = o.backups
                   /\ fs' = o.fs
                   /\ faults' = faults + o.faults
                   /\ last' = [Call("cmd_rollback", version_id, restore_data, o.ret)
                                 EXCEPT !.saved = o.saved, !.restored = o.restored,
                                        !.step = o.step,
                                        !.result = [metadata_only |-> metadata_only,
                                                    data_only |-> data_only]]
    /\ UNCHANGED <<peer, snapshots, cache, clock, cycle, taken, budget>>

(***************************************************************************)
(* SpecCli: versions are created and snapshotted, and the rollback command *)
(* is run with every combination of its flags, for known and unknown ids.  *)
(***************************************************************************)
NextCli ==
    \/ \E c \in StatsInputs, h \in HashInputs : CreateVersion(c, h)
    \/ SnapshotNewVersion
    \/ \E v \in CallIds, m \in BOOLEAN, d \in BOOLEAN, p \in BOOLEAN : CmdRollback(v, m, d, p)

SpecCli == Init /\ [][NextCli]_vars

\* C23 (as claimed): a rollback command that reports success leaves, when
\* run with --data-only (and without --metadata-only), the active version
\* what it was, in memory and in the registry file; and when run with
\* --metadata-only, it makes the version named the active one and leaves
\* the live directory, the snapshots and the backups what they were.
C23_RollbackFlags ==
    [][(last'.op = "cmd_rollback" /\ last'.ret = "True") =>
          /\ (last'.result.data_only /\ ~last'.result.metadata_only) =>
                /\ ActiveOf(versions') = ActiveOf(versions)
                /\ registry' = registry
          /\ last'.result.metadata_only =>
                /\ ActiveOf(versions') = last'.version_id
                /\ UNCHANGED <<live, snapshots, backups>>]_vars

(***************************************************************************)
(* SpecRelease: rebuild cycles run with --create-version, alone or with    *)
(* --force or --dry-run, one after another from an empty cache; builds,    *)
(* registry writes and snapshot copies may fail.                           *)
(***************************************************************************)
ReleaseArgs ==
    {[NoArgs EXCEPT !.create_version = TRUE, !.force = f, !.dry_run = d] :
        f \in BOOLEAN, d \in BOOLEAN}

NextRelease ==
    \/ \E a \in ReleaseArgs : Analyze(a)
    \/ \E b \in BuildOutcomes : RebuildSemantic(b)
    \/ \E b \in BuildOutcomes, g \in GenOutcomes : RebuildEpisodic(b, g)
    \/ \E b \in BuildOutcomes : RebuildProcedural(b)
    \/ \E st \in StatsInputs, f \in prompt_files \cup {NoFile} : CycleCreateVersion(st, f)
    \/ TrackPrompt
    \/ SnapshotCycleVersion

SpecRelease == InitCycle /\ [][NextRelease]_vars

\* The steps of main that build, or skip, a category.
BuildSteps == {"semantic", "episodic", "procedural"}

\* C24: a rebuild cycle adds a version, and takes a snapshot, only when it
\* has come through the three build steps with no build raising; the
\* analysis and the build steps leave the versions (as loaded from the
\* registry file), the file and the snapshots as they were; and a cycle in
\* which a build raised ends there, so that the active version is the one
\* from before the cycle.
C24_VersionAfterBuilds ==
    [][/\ last'.op \in {"analyze", "main"} =>
             /\ UNCHANGED <<registry, snapshots>>
             /\ registry.valid => versions' = registry.versions
       /\ cycle.pc \in BuildSteps =>
             /\ UNCHANGED <<versions, registry, snapshots>>
             /\ last'.ret = "raised" =>
                   (cycle'.pc = "crashed" /\ cycle'.failed = last'.category)
       /\ (Len(versions') > Len(versions) \/ snapshots' # snapshots) =>
             /\ cycle.pc \in {"version", "snapshot"}
             /\ cycle.failed = "none"
             /\ cycle.evaluated = BuildSteps
       /\ cycle.failed \in Categories => last'.op \in {"analyze", "main"}]_vars

\* C24's case: a cycle created and snapshotted a version; the next one,
\* run with --create-version, ended in the procedural build raising.
C24_Witness ==
    /\ cycle.pc = "crashed" /\ cycle.failed = "procedural"
    /\ cycle.args.create_version
    /\ Len(versions) = 1 /\ versions = registry.versions
    /\ ActiveOf(versions) \in DOMAIN snapshots

\* C25: when main comes to create_snapshot, the version it created is in
\* the registry file, the last record and the active one, as it is in
\* memory; the call leaves the versions and the file alone whatever it
\* returns, a False included, and main then runs to its end.
C25_SnapshotBestEffort ==
    [][cycle.pc = "snapshot" =>
          /\ registry.valid /\ versions = registry.versions
          /\ LastOf(registry.versions) = cycle.version_id
          /\ ActiveOf(registry.versions) = cycle.version_id
          /\ last'.op = "create_snapshot" /\ last'.version_id = cycle.version_id
          /\ last'.ret \in {"True", "False"}
          /\ UNCHANGED <<versions, registry>>
          /\ cycle'.pc = "done"]_vars

\* C25's case: the snapshot of the version a cycle created has failed,
\* leaving no directory; the cycle is at its end and the version active.
C25_Witness ==
    /\ cycle.pc = "done"
    /\ last.op = "create_snapshot" /\ last.ret = "False"
    /\ last.version_id \notin DOMAIN snapshots
    /\ registry.valid /\ ActiveOf(registry.versions) = last.version_id

(***************************************************************************)
(* The rule generation of the episodic block, under SpecBuild.             *)
(***************************************************************************)
\* C26: the procedural data and the procedural change count are written,
\* edits of the owner apart, only in the step in which the episodic build
\* returns, hence after that build and before the procedural one; when
\* that build has returned, main is at the procedural block however the
\* rule generation went; rules that came back make the procedural build
\* wanted, a generation that raised, was skipped or gave no rules leaves
\* the counts and the files as they were; and a wanted procedural build is
\* run, and its return followed by the update of the procedural entry.
C26_RuleGeneration ==
    [][/\ (last'.op # "edit" /\ cycle.pc \notin Terminal
           /\ (fs' # fs \/ (cycle'.pc \notin Terminal /\ cycle'.changes # cycle.changes))) =>
             /\ cycle.pc = "episodic" /\ last'.op = "build" /\ last'.ret = "None"
             /\ ~cycle.args.skip_procedural_gen
             /\ fs'[DirOf("semantic")] = fs[DirOf("semantic")]
             /\ fs'[DirOf("episodic")] = fs[DirOf("episodic")]
       /\ (cycle.pc = "episodic" /\ last'.op = "build" /\ last'.ret = "None") =>
             /\ cycle'.pc = "procedural"
             /\ cycle.args.skip_procedural_gen => last'.step = "no_rules"
             /\ last'.step \in {"saved", "not_saved"} =>
                   cycle'.changes["procedural"].total_changes > 0
             /\ last'.step \in {"raised", "no_rules"} =>
                   (fs' = fs /\ cycle'.changes = cycle.changes)
       /\ (cycle.pc = "procedural" /\ Wanted("procedural")) =>
             /\ last'.op = "build"
             /\ last'.ret = "None" =>
                   ("procedural" \in DOMAIN cache'
                    /\ cache'["procedural"] = current_files(DirOf("procedural")))]_vars

\* C26's case: the analysis found no procedural change, the episodic build
\* returned and the rule generation wrote rules; main, not forced, is at
\* the procedural block.
C26_Witness ==
    /\ cycle.pc = "procedural" /\ ~cycle.args.force
    /\ last.op = "build" /\ last.category = "episodic" /\ last.step = "saved"
    /\ cycle.changes["procedural"].added + cycle.changes["procedural"].modified
       + cycle.changes["procedural"].deleted = 0
    /\ Wanted("procedural")

C28_SummaryTotals ==
    LET Sums(m) == m.total_changes = m.added + m.modified + m.deleted
    IN  /\ \A c \in Categories : Sums(get_change_summary(DirOf(c), c))
        /\ \A i \in DOMAIN versions : \A c \in Categories :
              Sums(versions[i].metadata.changes[c])

(***************************************************************************)
(* SpecTwo: two VersionManager instances opened on the same registry file, *)
(* each having loaded it once, at its construction, when it was empty.     *)
(* versions is the list of the instance that makes the next call, peer the *)
(* list of the other; either may make the next call.                       *)
(***************************************************************************)
\* The other instance makes the next call.
OtherInstance ==
    /\ Running
    /\ last.op # "other_instance"
    /\ versions' = peer
    /\ peer' = versions
    /\ last' = Call("other_instance", NoId, FALSE, "None")
    /\ UNCHANGED <<registry, snapshots, live, backups, fs, cache, clock, cycle, taken,
                   budget, faults>>

NextTwo ==
    \/ \E c \in StatsInputs, h \in HashInputs : CreateVersion(c, h)
    \/ \E v \in CallIds, rd \in BOOLEAN : RollbackToVersion(v, rd)
    \/ Tick
    \/ OtherInstance

SpecTwo == Init /\ [][NextTwo]_vars

\* C29 (as claimed): after any interleaving of the create_version and
\* rollback_to_version calls of the two instances, no write having failed,
\* the registry file holds every version either instance created, under
\* ids that are all distinct, and exactly one active version if it holds
\* any.
C29_SharedRegistry ==
    faults = 0 =>
        /\ \A vs \in {versions, peer} : \A i \in DOMAIN vs :
              \E j \in DOMAIN registry.versions :
                 registry.versions[j].version_id = vs[i].version_id
        /\ \A i \in DOMAIN registry.versions, j \in DOMAIN registry.versions :
              registry.versions[i].version_id = registry.versions[j].version_id => i = j
        /\ registry.versions # <<>> => ActiveCount(registry.versions) = 1

(***************************************************************************)
(* The order of the ids, under SpecCleanup.                                *)
(***************************************************************************)
\* C30 (as claimed): a cleanup that deleted all it set out to delete has
\* kept the snapshots of the versions created last: no snapshot it deleted
\* has a greater sequence number than one it kept.
C30_KeepsMostRecent ==
    [][(last'.op = "cleanup_old_snapshots" /\ last'.step = "done") =>
          \A kept \in DOMAIN snapshots', deleted \in DOMAIN snapshots \ DOMAIN snapshots' :
             deleted[1] <= kept[1]]_vars

====
